---- MODULE Spec2Model ----
(***************************************************************************)
(* Model of the admin dashboard token lifecycle and the web sessions       *)
(* (AdminAuthService), of the order status lifecycle (OrderService,        *)
(* NotificationService), of the balance bookkeeping (PaymentService), of   *)
(* the support chats (SupportService) and of the rateLimit middleware of   *)
(* CargoExpress.                                                           *)
(*                                                                         *)
(* Time is a discrete clock `now`.  The durable store (Prisma) and the     *)
(* cache (Redis, through RedisHelper) are variables; every service method  *)
(* is one action that runs the whole method, and where calls overlap a     *)
(* call is a sequence of steps, one per await.                             *)
(***************************************************************************)
EXTENDS Integers, Sequences, FiniteSets, TLC

(***************************************************************************)
(* Bounds of the model.                                                    *)
(***************************************************************************)
MaxTime == 2
MaxTokens == 2
MaxDrift == 1
MaxOrders == 1
MaxHistory == 3
MaxNotifications == 2
MaxFaults == 1
MaxTransactions == 2
MaxBalance == 4
InitialBalance == 3
MaxSessions == 2
MaxSessionTime == 3
MaxChats == 2
MaxMessages == 3

(***************************************************************************)
(* Program constants, in clock ticks.                                      *)
(***************************************************************************)
\* 15 * 60 * 1000 ms of index.ts:72 and the 15 * 60 s of index.ts:96
TokenTTL == 1
\* TTL.MEDIUM, 60 * 30 s: twice the token lifetime
OrderCacheTTL == 2
\* 7 * 24 * 60 * 60 s of index.ts:236 and index.ts:255, in ticks of the session
\* clock (TickSession), which are coarser than those of the token clock
SessionTTL == 2
\* 30 * 24 * 60 * 60 s of index.ts:262, in ticks of the session clock
RefreshTTL == 8

Admins == {1, 2}
TokenIds == 1..MaxTokens
\* generateId(16) never returns the same access key twice: the key of the n-th
\* token is n, and the keys a client can supply are those
Keys == TokenIds

None == 0
NoEntry == [present |-> FALSE]

VARIABLES
  now,          \* the wall clock (Date.now())
  tokens,       \* prisma.adminDashboardToken: sequence of records, the token is the index
  cache,        \* Redis keys admin:dashboard:<token>
  pending,      \* Redis keys admin:pending:<adminId>
  last,         \* the call just made, its arguments and what it returned
  orders,       \* prisma.shippingOrder and prisma.purchaseOrder: per kind a sequence, the id is the index
  history,      \* prisma.orderStatusHistory, in the order the rows were written
  orderCache,   \* Redis keys cache:order:<orderId>
  transitions,  \* per kind and order id, the number of status updates that have completed
  faults,       \* the number of OrderService calls that a failing store or Redis call has ended
  notifications, \* prisma.notification, in the order the rows were written
  pushQueue,    \* the Redis list REDIS_KEYS.NOTIFICATION_QUEUE, newest first
  unread,       \* the Redis counter unread_notifications:<userId>
  balance,      \* prisma.user.balance, per user
  txs,          \* prisma.transaction: sequence of records, the id is the index
  txCache,      \* Redis keys transaction:<id>
  admins,       \* prisma.admin: per admin id "active", "inactive" or "missing"
  sessions,     \* Redis keys admin:web_session:<sessionId>
  refresh,      \* Redis keys admin:refresh:<refreshToken>
  sessionCount, \* the number of session ids generated so far
  procs,        \* per caller, the call it is in, the await it has reached and its locals
  chats,        \* prisma.supportChat: sequence of records, the id is the index
  messages,     \* prisma.chatMessage, in the order the rows were written
  supportQueue, \* the Redis list REDIS_KEYS.SUPPORT_QUEUE, newest first
  rateKeys,     \* Redis keys rate_limit:<userId>
  admits        \* per user, the requests let through since the counter key last expired

tokenVars == <<tokens, cache, pending>>

orderVars == <<orders, history, orderCache, transitions, faults>>

notifyVars == <<notifications, pushQueue, unread>>

payVars == <<balance, txs, txCache>>

sessVars == <<admins, sessions, refresh, sessionCount>>

chatVars == <<chats, messages, supportQueue>>

rateVars == <<rateKeys, admits>>

\* the variables of the web sessions and of the calls that run await by await,
\* which the calls of the sections on tokens, orders, notifications and
\* payments leave alone
otherVars == <<sessVars, procs, chatVars, rateVars>>

vars == <<now, tokens, cache, pending, last, orders, history, orderCache, transitions, faults,
          notifications, pushQueue, unread, balance, txs, txCache,
          admins, sessions, refresh, sessionCount, procs,
          chats, messages, supportQueue, rateKeys, admits>>

(***************************************************************************)
(* RedisHelper                                                             *)
(***************************************************************************)
\* setex key ttl value, issued at time `at`
SetWithTTL(c, key, value, at, ttl) ==
  [c EXCEPT ![key] = [present |-> TRUE, value |-> value, evictAt |-> at + ttl]]

\* del key: the delete(key) of the key-value store contract (RedisHelper itself
\* declares no del; every caller uses it as Redis DEL)
Del(c, key) == [c EXCEPT ![key] = NoEntry]

\* get key: null when the key is absent
Get(c, key) == c[key]

\* the keys Redis may have dropped at time t: those whose ttl, counted from the
\* time the service read the clock, has run out
Due(c, t) == {k \in DOMAIN c : c[k].present /\ c[k].evictAt < t}

\* the keys Redis has dropped at time t: setex is issued after the service read
\* the clock, at most MaxDrift later
Overdue(c, t) == {k \in DOMAIN c : c[k].present /\ c[k].evictAt + MaxDrift < t}

\* Redis drops the keys of S
Evict(c, S) == [k \in DOMAIN c |-> IF k \in S THEN NoEntry ELSE c[k]]

(***************************************************************************)
(* AdminAuthService                                                        *)
(***************************************************************************)
Exists(t) == t \in 1..Len(tokens)

\* revokeAdminTokens with the expiry comparison the wrong way round
RevokeInDb_ExpiredOnly(db, adminId, at) ==
  [t \in 1..Len(db) |->
     IF db[t].adminId = adminId /\ ~db[t].isUsed /\ db[t].expiresAt < at
     THEN [db[t] EXCEPT !.isUsed = TRUE]
     ELSE db[t]]

\* prisma.adminDashboardToken.updateMany of revokeAdminTokens
RevokeInDb(db, adminId, at) ==
  [t \in 1..Len(db) |->
     IF db[t].adminId = adminId /\ ~db[t].isUsed /\ db[t].expiresAt > at
     THEN [db[t] EXCEPT !.isUsed = TRUE]
     ELSE db[t]]

\* the Redis part of revokeAdminTokens: the token named by admin:pending:<adminId>
RevokeInCache(c, p, adminId) ==
  IF p[adminId] # None THEN Del(c, p[adminId]) ELSE c

RevokePending(p, adminId) ==
  IF p[adminId] # None THEN [p EXCEPT ![adminId] = None] ELSE p

\* markTokenAsUsed that writes no isUsed flag
MarkUsedInDb_NoFlag(db, token, at) == db

\* markTokenAsUsed that flips the isUsed flag
MarkUsedInDb_Toggle(db, token, at) ==
  [t \in 1..Len(db) |->
     IF t = token THEN [db[t] EXCEPT !.isUsed = ~db[t].isUsed] ELSE db[t]]

\* prisma.adminDashboardToken.updateMany of markTokenAsUsed
MarkUsedInDb(db, token, at) ==
  [t \in 1..Len(db) |->
     IF t = token THEN [db[t] EXCEPT !.isUsed = TRUE] ELSE db[t]]

\* the record validateDashboardToken works on: the mirror, else the durable record
TokenData(token) ==
  IF Get(cache, token).present
  THEN [found |-> TRUE,
        adminId |-> Get(cache, token).value.adminId,
        accessKey |-> Get(cache, token).value.accessKey,
        expiresAt |-> Get(cache, token).value.expiresAt,
        isUsed |-> Get(cache, token).value.isUsed]
  ELSE IF Exists(token)
  THEN [found |-> TRUE,
        adminId |-> tokens[token].adminId,
        accessKey |-> tokens[token].accessKey,
        expiresAt |-> tokens[token].expiresAt,
        isUsed |-> tokens[token].isUsed]
  ELSE [found |-> FALSE, adminId |-> None, accessKey |-> None,
        expiresAt |-> 0, isUsed |-> FALSE]

\* validateDashboardToken that compares the access key on the cache path only
ValidateResult_KeyOnCachePath(token, accessKey) ==
  LET d == TokenData(token) IN
  IF ~d.found THEN [valid |-> FALSE, error |-> "NotFound", adminId |-> None]
  ELSE IF Get(cache, token).present /\ d.accessKey # accessKey
  THEN [valid |-> FALSE, error |-> "KeyMismatch", adminId |-> None]
  ELSE IF d.isUsed
  THEN [valid |-> FALSE, error |-> "AlreadyUsed", adminId |-> None]
  ELSE IF now > d.expiresAt
  THEN [valid |-> FALSE, error |-> "Expired", adminId |-> None]
  ELSE [valid |-> TRUE, error |-> "", adminId |-> d.adminId]

\* what validateDashboardToken(token, accessKey) returns in the current state
ValidateResult(token, accessKey) ==
  LET d == TokenData(token) IN
  IF ~d.found THEN [valid |-> FALSE, error |-> "NotFound", adminId |-> None]
  ELSE IF d.accessKey # accessKey
  THEN [valid |-> FALSE, error |-> "KeyMismatch", adminId |-> None]
  ELSE IF d.isUsed
  THEN [valid |-> FALSE, error |-> "AlreadyUsed", adminId |-> None]
  ELSE IF now > d.expiresAt
  THEN [valid |-> FALSE, error |-> "Expired", adminId |-> None]
  ELSE [valid |-> TRUE, error |-> "", adminId |-> d.adminId]

\* markTokenAsExpired
MarkTokenAsExpired(c, token) == Del(c, token)

\* the record of a call: run counts the generateDashboardAccess calls made in a
\* row for the same admin (1 or 2); result is the error name or "Valid" of a
\* validation, and "AfterValid" for the markTokenAsUsed that follows the
\* successful validation of its token
Call(op, adminId, token, key, result, resAdmin, run) ==
  [op |-> op, adminId |-> adminId, token |-> token, key |-> key,
   result |-> result, resAdmin |-> resAdmin, run |-> run]

\* generateDashboardAccess(adminId): revoke, create the record, mirror it.
\* token and accessKey are the fresh generateId values.
GenerateDashboardAccess(adminId) ==
  /\ Len(tokens) < MaxTokens
  /\ LET token == Len(tokens) + 1
         accessKey == Len(tokens) + 1
         expiresAt == now + TokenTTL
         revoked == RevokeInDb(tokens, adminId, now)
         record == [adminId |-> adminId, accessKey |-> accessKey,
                    expiresAt |-> expiresAt, isUsed |-> FALSE]
         tokenData == [adminId |-> adminId, accessKey |-> accessKey,
                       expiresAt |-> expiresAt, isUsed |-> FALSE]
     IN /\ tokens' = Append(revoked, record)
        /\ cache' = SetWithTTL(RevokeInCache(cache, pending, adminId),
                               token, tokenData, now, TokenTTL)
        /\ pending' = RevokePending(pending, adminId)
        /\ last' = Call("issue", adminId, None, None, "", None,
                        IF last.op = "issue" /\ last.adminId = adminId THEN 2 ELSE 1)
  /\ UNCHANGED <<now, otherVars, notifyVars, payVars, orderVars>>

\* validateDashboardToken without the lazy cleanup of the Expired path
ValidateCacheEffect_NoCleanup(c, token, r) == c

\* validateDashboardToken that consumes the token it accepts
ValidateStoreEffect_MarksUsed(db, token, r) ==
  IF r.valid THEN MarkUsedInDb(db, token, now) ELSE db

\* what validateDashboardToken does to the durable store: it only reads
ValidateStoreEffect(db, token, r) == db

\* what validateDashboardToken does to the cache: only the Expired path deletes
ValidateCacheEffect(c, token, r) ==
  IF r.error = "Expired" THEN MarkTokenAsExpired(c, token) ELSE c

\* validateDashboardToken(token, accessKey)
ValidateDashboardToken(token, accessKey) ==
  LET r == ValidateResult(token, accessKey) IN
  /\ cache' = ValidateCacheEffect(cache, token, r)
  /\ last' = Call("validate", None, token, accessKey,
                  IF r.valid THEN "Valid" ELSE r.error, r.adminId, 0)
  /\ tokens' = ValidateStoreEffect(tokens, token, r)
  /\ UNCHANGED <<now, otherVars, notifyVars, payVars, pending, orderVars>>

\* markTokenAsUsed(token)
MarkTokenAsUsed(token) ==
  /\ tokens' = MarkUsedInDb(tokens, token, now)
  /\ cache' = Del(cache, token)
  /\ last' = Call("consume", None, token, None,
                  IF last.op = "validate" /\ last.token = token /\ last.result = "Valid"
                  THEN "AfterValid" ELSE "", None, 0)
  /\ UNCHANGED <<now, otherVars, notifyVars, payVars, pending, orderVars>>

\* revokeAdminTokens(adminId), as handleCancelDashboardAccess calls it
RevokeAdminTokens(adminId) ==
  /\ tokens' = RevokeInDb(tokens, adminId, now)
  /\ cache' = RevokeInCache(cache, pending, adminId)
  /\ pending' = RevokePending(pending, adminId)
  /\ last' = Call("revoke", adminId, None, None, "", None, 0)
  /\ UNCHANGED <<now, otherVars, notifyVars, payVars, orderVars>>

(***************************************************************************)
(* OrderService                                                            *)
(***************************************************************************)
OrderTypes == {"shipping", "purchase"}
OrderIds == 1..MaxOrders
TrackNumbers == {1}

\* enum OrderStatus
OrderStatus ==
  {"CREATED", "PAID", "WAREHOUSE_RECEIVED", "PROCESSING", "SHIPPED", "CUSTOMS",
   "IN_TRANSIT", "READY_PICKUP", "DELIVERED", "PROBLEM", "CANCELLED"}

\* enum PurchaseOrderStatus
PurchaseOrderStatus ==
  {"CREATED", "PAID", "PURCHASING", "PURCHASED", "WAREHOUSE_RECEIVED", "SHIPPED",
   "DELIVERED", "PROBLEM", "REFUNDED"}

StatusesOf(type) == IF type = "shipping" THEN OrderStatus ELSE PurchaseOrderStatus

\* the oldStatus of a history row written without one
NoStatus == "-"

\* the type property of an order that carries none
NoType == "-"

OrderExists(type, orderId) == orderId \in 1..Len(orders[type])

\* new Date() at time t
DateOf(t) == [kind |-> "Date", at |-> t]

\* JSON.parse(JSON.stringify(v)) of a date field: a Date comes back as its ISO string
ToJSON(v) == IF v.kind = "Date" THEN [kind |-> "string", at |-> v.at] ELSE v

\* the order a call returns when it returns a row of the durable store
StoredOrder(row) ==
  [found |-> TRUE, type |-> NoType, status |-> row.status,
   trackNumber |-> row.trackNumber, updatedAt |-> row.updatedAt]

\* null
NullOrder ==
  [found |-> FALSE, type |-> NoType, status |-> NoStatus,
   trackNumber |-> None, updatedAt |-> DateOf(0)]

\* createStatusHistory that leaves oldStatus out of the row
CreateStatusHistory_NoOld(h, orderId, type, oldStatus, newStatus) ==
  Append(h, [orderId |-> orderId, orderType |-> type,
             oldStatus |-> NoStatus, newStatus |-> newStatus])

\* createStatusHistory
CreateStatusHistory(h, orderId, type, oldStatus, newStatus) ==
  Append(h, [orderId |-> orderId, orderType |-> type,
             oldStatus |-> oldStatus, newStatus |-> newStatus])

\* cacheOrder that leaves the tracking number out of the cached order
CacheOrder_NoTrack(c, orderId, order, type, at) ==
  SetWithTTL(c, orderId,
             [type |-> type, status |-> order.status, trackNumber |-> None,
              updatedAt |-> ToJSON(order.updatedAt)],
             at, OrderCacheTTL)

\* cacheOrder: JSON of { ...order, type } under cache:order:<orderId>, for TTL.MEDIUM
CacheOrder(c, orderId, order, type, at) ==
  SetWithTTL(c, orderId,
             [type |-> type, status |-> order.status, trackNumber |-> order.trackNumber,
              updatedAt |-> ToJSON(order.updatedAt)],
             at, OrderCacheTTL)

\* getCachedOrder: the parsed entry when there is one of the kind asked for
GetCachedOrder(c, orderId, type) ==
  IF Get(c, orderId).present /\ Get(c, orderId).value.type = type
  THEN [found |-> TRUE, type |-> Get(c, orderId).value.type,
        status |-> Get(c, orderId).value.status,
        trackNumber |-> Get(c, orderId).value.trackNumber,
        updatedAt |-> Get(c, orderId).value.updatedAt]
  ELSE NullOrder

\* clearOrderCache
ClearOrderCache(c, orderId) == Del(c, orderId)

\* what getShippingOrder / getPurchaseOrder returns: the cached order, else the stored one, else null
GetOrderResult(type, orderId) ==
  IF GetCachedOrder(orderCache, orderId, type).found
  THEN GetCachedOrder(orderCache, orderId, type)
  ELSE IF OrderExists(type, orderId)
  THEN StoredOrder(orders[type][orderId])
  ELSE NullOrder

\* getShippingOrder / getPurchaseOrder that caches the answer of the store also when it is null
GetOrderCache_CachesNull(type, orderId) ==
  IF ~GetCachedOrder(orderCache, orderId, type).found
  THEN CacheOrder(orderCache, orderId,
                  IF OrderExists(type, orderId) THEN orders[type][orderId]
                  ELSE [status |-> NoStatus, trackNumber |-> None, updatedAt |-> DateOf(now)],
                  type, now)
  ELSE orderCache

\* the cache after getShippingOrder / getPurchaseOrder: filled on a miss that the store answers
GetOrderCache(type, orderId) ==
  IF ~GetCachedOrder(orderCache, orderId, type).found /\ OrderExists(type, orderId)
  THEN CacheOrder(orderCache, orderId, orders[type][orderId], type, now)
  ELSE orderCache

\* the record of a call of OrderService: outcome is "ok", "null" or the error
\* thrown, result the order returned, storeRead whether prisma findUnique ran
OrderCall(op, type, orderId, outcome, result, storeRead) ==
  [op |-> op, type |-> type, orderId |-> orderId, outcome |-> outcome,
   result |-> result, storeRead |-> storeRead]

\* createShippingOrder / createPurchaseOrder
CreateOrder(type) ==
  /\ Len(orders[type]) < MaxOrders
  /\ Len(history) < MaxHistory
  /\ LET orderId == Len(orders[type]) + 1
         order == [status |-> "CREATED", trackNumber |-> None, updatedAt |-> DateOf(now)]
     IN /\ orders' = [orders EXCEPT ![type] = Append(@, order)]
        /\ history' = CreateStatusHistory(history, orderId, type, NoStatus, "CREATED")
        /\ orderCache' = CacheOrder(orderCache, orderId, order, type, now)
        /\ last' = OrderCall("create", type, orderId, "ok", StoredOrder(order), FALSE)
  /\ UNCHANGED <<now, otherVars, notifyVars, payVars, tokenVars, faults, transitions>>

\* getShippingOrder / getPurchaseOrder
GetOrder(type, orderId) ==
  /\ orderCache' = GetOrderCache(type, orderId)
  /\ last' = OrderCall("get", type, orderId,
                       IF GetOrderResult(type, orderId).found THEN "ok" ELSE "null",
                       GetOrderResult(type, orderId),
                       ~GetCachedOrder(orderCache, orderId, type).found)
  /\ UNCHANGED <<now, otherVars, notifyVars, payVars, tokenVars, faults, orders, history, transitions>>

\* the statuses getOrderStats counts as finished, per kind
FinalStatuses(type) ==
  IF type = "shipping" THEN {"DELIVERED", "CANCELLED"} ELSE {"DELIVERED", "REFUNDED"}

\* the writes of updateShippingOrderStatus / updatePurchaseOrderStatus once the
\* order was found: the status, the history row, the cache entry
ApplyStatusUpdate(type, orderId, newStatus, currentOrder) ==
  /\ Len(history) < MaxHistory
  /\ LET updatedOrder == [orders[type][orderId] EXCEPT !.status = newStatus,
                                                       !.updatedAt = DateOf(now)]
     IN /\ orders' = [orders EXCEPT ![type][orderId] = updatedOrder]
        /\ history' = CreateStatusHistory(history, orderId, type,
                                          currentOrder.status, newStatus)
        /\ orderCache' = CacheOrder(GetOrderCache(type, orderId), orderId,
                                    updatedOrder, type, now)
        /\ last' = OrderCall("update", type, orderId, "ok", StoredOrder(updatedOrder),
                             ~GetCachedOrder(orderCache, orderId, type).found)
  /\ transitions' = [transitions EXCEPT ![type][orderId] = @ + 1]
  /\ UNCHANGED <<now, otherVars, notifyVars, payVars, tokenVars, faults>>

\* a call that throws before it wrote anything but what its read-through cached
Refused(op, type, orderId, error) ==
  /\ orderCache' = GetOrderCache(type, orderId)
  /\ last' = OrderCall(op, type, orderId, error, NullOrder,
                       ~GetCachedOrder(orderCache, orderId, type).found)
  /\ UNCHANGED <<now, otherVars, notifyVars, payVars, tokenVars, faults, orders, history, transitions>>

\* updateShippingOrderStatus without the test of currentOrder: prisma update
\* rejects the missing id
UpdateOrderStatus_NoCheck(type, orderId, newStatus) ==
  IF ~OrderExists(type, orderId)
  THEN Refused("update", type, orderId, "RecordNotFound")
  ELSE ApplyStatusUpdate(type, orderId, newStatus, GetOrderResult(type, orderId))

\* updateShippingOrderStatus with a status graph: nothing follows a finished status
UpdateOrderStatus_Guarded(type, orderId, newStatus) ==
  LET currentOrder == GetOrderResult(type, orderId) IN
  IF ~currentOrder.found
  THEN Refused("update", type, orderId, "NotFound")
  ELSE IF currentOrder.status \in FinalStatuses(type)
  THEN Refused("update", type, orderId, "InvalidTransition")
  ELSE ApplyStatusUpdate(type, orderId, newStatus, currentOrder)

\* updateShippingOrderStatus / updatePurchaseOrderStatus
UpdateOrderStatus(type, orderId, newStatus) ==
  LET currentOrder == GetOrderResult(type, orderId) IN
  IF ~currentOrder.found
  THEN \* throw new Error('Order not found')
       Refused("update", type, orderId, "NotFound")
  ELSE ApplyStatusUpdate(type, orderId, newStatus, currentOrder)

\* addTrackingNumber that also moves the order to SHIPPED
AddTrackingNumber_SetsShipped(orderId, trackNumber, type) ==
  /\ IF OrderExists(type, orderId)
     THEN /\ orders' = [orders EXCEPT ![type][orderId].trackNumber = trackNumber,
                                      ![type][orderId].status = "SHIPPED"]
          /\ orderCache' = ClearOrderCache(orderCache, orderId)
          /\ last' = OrderCall("track", type, orderId, "ok", NullOrder, FALSE)
     ELSE /\ UNCHANGED <<orders, orderCache>>
          /\ last' = OrderCall("track", type, orderId, "RecordNotFound", NullOrder, FALSE)
  /\ UNCHANGED <<now, otherVars, notifyVars, payVars, tokenVars, faults, history, transitions>>

\* addTrackingNumber: prisma update rejects an id that is not stored
AddTrackingNumber(orderId, trackNumber, type) ==
  /\ IF OrderExists(type, orderId)
     THEN /\ orders' = [orders EXCEPT ![type][orderId].trackNumber = trackNumber]
          /\ orderCache' = ClearOrderCache(orderCache, orderId)
          /\ last' = OrderCall("track", type, orderId, "ok", NullOrder, FALSE)
     ELSE /\ UNCHANGED <<orders, orderCache>>
          /\ last' = OrderCall("track", type, orderId, "RecordNotFound", NullOrder, FALSE)
  /\ UNCHANGED <<now, otherVars, notifyVars, payVars, tokenVars, faults, history, transitions>>

\* createShippingOrder / createPurchaseOrder when the call named by failed
\* rejects (the store or Redis is unavailable): the calls before it have taken
\* effect, the method throws
CreateOrderFails(type, failed) ==
  /\ Len(orders[type]) < MaxOrders
  /\ LET orderId == Len(orders[type]) + 1
         order == [status |-> "CREATED", trackNumber |-> None, updatedAt |-> DateOf(now)]
     IN /\ orders' = IF failed = "create" THEN orders
                     ELSE [orders EXCEPT ![type] = Append(@, order)]
        /\ history' = IF failed = "cache"
                      THEN CreateStatusHistory(history, orderId, type, NoStatus, "CREATED")
                      ELSE history
        /\ last' = OrderCall("create", type, orderId, "StoreUnavailable", NullOrder, FALSE)
  /\ failed = "cache" => Len(history) < MaxHistory
  /\ faults < MaxFaults
  /\ faults' = faults + 1
  /\ UNCHANGED <<now, otherVars, notifyVars, payVars, tokenVars, orderCache, transitions>>

\* updateShippingOrderStatus / updatePurchaseOrderStatus when the call named
\* by failed rejects, for an order that getShippingOrder / getPurchaseOrder found
UpdateOrderStatusFails(type, orderId, newStatus, failed) ==
  LET currentOrder == GetOrderResult(type, orderId)
      updatedOrder == [orders[type][orderId] EXCEPT !.status = newStatus,
                                                    !.updatedAt = DateOf(now)]
  IN /\ currentOrder.found
     /\ OrderExists(type, orderId)
     /\ orders' = IF failed = "update" THEN orders
                  ELSE [orders EXCEPT ![type][orderId] = updatedOrder]
     /\ history' = IF failed = "cache"
                   THEN CreateStatusHistory(history, orderId, type,
                                            currentOrder.status, newStatus)
                   ELSE history
     /\ failed = "cache" => Len(history) < MaxHistory
     /\ orderCache' = GetOrderCache(type, orderId)
     /\ last' = OrderCall("update", type, orderId, "StoreUnavailable", NullOrder,
                          ~GetCachedOrder(orderCache, orderId, type).found)
     /\ faults < MaxFaults
     /\ faults' = faults + 1
     /\ UNCHANGED <<now, otherVars, notifyVars, payVars, tokenVars, transitions>>

(***************************************************************************)
(* NotificationService                                                     *)
(***************************************************************************)
\* lpush key value: the publish of the notification sink contract (RedisHelper
\* itself declares no lpush)
LPush(q, value) == <<value>> \o q

\* incr key
Incr(n) == n + 1

\* the record of a call of NotificationService
NotifyCall(op, type, orderId) == [op |-> op, type |-> type, orderId |-> orderId]

\* sendOrderStatusUpdate(userId, orderId, orderType, oldStatus, newStatus):
\* createNotification, then queuePushNotification
SendOrderStatusUpdate(orderId, orderType, oldStatus, newStatus) ==
  /\ Len(notifications) < MaxNotifications
  /\ notifications' = Append(notifications,
                             [orderId |-> orderId, orderType |-> orderType,
                              oldStatus |-> oldStatus, newStatus |-> newStatus])
  /\ unread' = Incr(unread)
  /\ pushQueue' = LPush(pushQueue, [orderId |-> orderId, orderType |-> orderType])
  /\ last' = NotifyCall("notify", orderType, orderId)
  /\ UNCHANGED <<now, otherVars, tokenVars, orderVars, payVars>>

(***************************************************************************)
(* PaymentService                                                          *)
(***************************************************************************)
Users == {1}
TxIds == 1..MaxTransactions
Amounts == {1, 2}

\* enum TransactionType
TransactionType == {"PAYMENT", "REFUND", "BONUS", "WITHDRAWAL"}

\* enum TransactionStatus
TransactionStatus == {"PENDING", "COMPLETED", "FAILED", "CANCELLED"}

TxExists(id) == id \in 1..Len(txs)

\* the record of a call of PaymentService: outcome is "ok" or the error thrown
PayCall(op, userId, txId, status, outcome) ==
  [op |-> op, userId |-> userId, txId |-> txId, status |-> status, outcome |-> outcome]

\* updateUserBalance: the new balance, or the error it throws
UpdateUserBalance(bal, userId, amount, operation) ==
  LET newBalance == IF operation = "add" THEN bal[userId] + amount
                    ELSE bal[userId] - amount
  IN IF newBalance < 0 /\ operation = "subtract"
     THEN [ok |-> FALSE, error |-> "InsufficientBalance", balance |-> bal]
     ELSE [ok |-> TRUE, error |-> "", balance |-> [bal EXCEPT ![userId] = newBalance]]

\* processCompletedTransaction
ProcessCompletedTransaction(bal, transaction) ==
  IF transaction.type \in {"PAYMENT", "REFUND", "BONUS"}
  THEN UpdateUserBalance(bal, transaction.userId, transaction.amount, "add")
  ELSE UpdateUserBalance(bal, transaction.userId, transaction.amount, "subtract")

\* the transaction cached under transaction:<id>, for TTL.MEDIUM
CacheTransaction(c, id, transaction, at) ==
  SetWithTTL(c, id, [status |-> transaction.status], at, OrderCacheTTL)

\* createTransaction
CreateTransaction(userId, amount, type) ==
  /\ Len(txs) < MaxTransactions
  /\ LET transaction == [userId |-> userId, type |-> type, amount |-> amount,
                         status |-> "PENDING"]
     IN /\ txs' = Append(txs, transaction)
        /\ txCache' = CacheTransaction(txCache, Len(txs) + 1, transaction, now)
        /\ last' = PayCall("createTransaction", userId, Len(txs) + 1, "PENDING", "ok")
  /\ UNCHANGED <<now, otherVars, tokenVars, orderVars, notifyVars, balance>>

\* updateTransactionStatus: the status is written first; a COMPLETED status
\* then moves the balance, and the cache is refreshed last
UpdateTransactionStatus(transactionId, status) ==
  IF ~TxExists(transactionId)
  THEN /\ last' = PayCall("updateTransactionStatus", None, transactionId, status,
                          "RecordNotFound")
       /\ UNCHANGED <<now, otherVars, tokenVars, orderVars, notifyVars, payVars>>
  ELSE LET transaction == [txs[transactionId] EXCEPT !.status = status]
           r == IF status = "COMPLETED"
                THEN ProcessCompletedTransaction(balance, transaction)
                ELSE [ok |-> TRUE, error |-> "", balance |-> balance]
       IN /\ r.balance[transaction.userId] <= MaxBalance
          /\ txs' = [txs EXCEPT ![transactionId] = transaction]
          /\ balance' = r.balance
          /\ txCache' = IF r.ok
                        THEN CacheTransaction(txCache, transactionId, transaction, now)
                        ELSE txCache
          /\ last' = PayCall("updateTransactionStatus", transaction.userId,
                             transactionId, status, IF r.ok THEN "ok" ELSE r.error)
          /\ UNCHANGED <<now, otherVars, tokenVars, orderVars, notifyVars>>

\* createWithdrawal: the balance test, createTransaction, then
\* updateTransactionStatus(COMPLETED)
CreateWithdrawal(userId, amount) ==
  IF balance[userId] < amount
  THEN \* throw new Error('Insufficient balance')
       /\ last' = PayCall("createWithdrawal", userId, None, "", "InsufficientBalance")
       /\ UNCHANGED <<now, otherVars, tokenVars, orderVars, notifyVars, payVars>>
  ELSE /\ Len(txs) < MaxTransactions
       /\ LET transaction == [userId |-> userId, type |-> "WITHDRAWAL",
                              amount |-> amount, status |-> "COMPLETED"]
              r == ProcessCompletedTransaction(balance, transaction)
          IN /\ txs' = Append(txs, transaction)
             /\ balance' = r.balance
             /\ txCache' = IF r.ok
                           THEN CacheTransaction(txCache, Len(txs) + 1, transaction, now)
                           ELSE CacheTransaction(txCache, Len(txs) + 1,
                                                 [transaction EXCEPT !.status = "PENDING"],
                                                 now)
             /\ last' = PayCall("createWithdrawal", userId, Len(txs) + 1, "COMPLETED",
                                IF r.ok THEN "ok" ELSE r.error)
       /\ UNCHANGED <<now, otherVars, tokenVars, orderVars, notifyVars>>

(***************************************************************************)
(* AdminAuthService: web sessions                                          *)
(***************************************************************************)
SessionIds == 1..MaxSessions
AdminStates == {"active", "inactive", "missing"}

\* date.toISOString()
ToISOString(t) == [kind |-> "string", at |-> t]

\* new Date(isoString).getTime()
NewDate(v) == v.at

\* the record of a call on a web session: valid is what the call returned, path
\* names the return statement taken
SessionCall(op, adminId, sessionId, valid, path) ==
  [op |-> op, adminId |-> adminId, sessionId |-> sessionId, valid |-> valid, path |-> path]

\* createWebSession(adminId): the session and the refresh token are fresh
\* generateId values
CreateWebSession(adminId) ==
  /\ sessionCount < MaxSessions
  /\ LET sessionId == sessionCount + 1
         refreshToken == sessionCount + 1
         sessionData == [adminId |-> adminId,
                         expiresAt |-> ToISOString(now + SessionTTL),
                         createdAt |-> ToISOString(now),
                         lastActivity |-> ToISOString(now)]
     IN /\ sessions' = SetWithTTL(sessions, sessionId, sessionData, now, SessionTTL)
        /\ refresh' = SetWithTTL(refresh, refreshToken,
                                 [sessionId |-> sessionId, adminId |-> adminId],
                                 now, RefreshTTL)
        /\ sessionCount' = sessionCount + 1
        /\ last' = SessionCall("createWebSession", adminId, sessionId, TRUE, "created")
  /\ UNCHANGED <<now, admins, procs, tokenVars, orderVars, notifyVars, chatVars, rateVars, payVars>>

\* validateWebSession that moves expiresAt along with lastActivity
TouchSession_SlidesExpiry(sessionData, at) ==
  [sessionData EXCEPT !.lastActivity = ToISOString(at),
                      !.expiresAt = ToISOString(at + SessionTTL)]

\* sessionData.lastActivity = new Date().toISOString()
TouchSession(sessionData, at) ==
  [sessionData EXCEPT !.lastActivity = ToISOString(at)]

\* validateWebSession that leaves the key of a session it refuses
DropSession_Keeps(c, sessionId) == c

\* redisHelper.del of the session key
DropSession(c, sessionId) == Del(c, sessionId)

\* validateWebSession(sessionId)
ValidateWebSession(sessionId) ==
  LET entry == Get(sessions, sessionId) IN
  /\ IF ~entry.present
     THEN \* return { valid: false }
          /\ last' = SessionCall("validateWebSession", None, sessionId, FALSE, "NoSession")
          /\ UNCHANGED sessions
     ELSE IF now > NewDate(entry.value.expiresAt)
     THEN /\ sessions' = DropSession(sessions, sessionId)
          /\ last' = SessionCall("validateWebSession", entry.value.adminId, sessionId,
                                 FALSE, "Expired")
     ELSE IF admins[entry.value.adminId] # "active"
     THEN /\ sessions' = DropSession(sessions, sessionId)
          /\ last' = SessionCall("validateWebSession", entry.value.adminId, sessionId,
                                 FALSE, "AdminInactive")
     ELSE /\ sessions' = SetWithTTL(sessions, sessionId, TouchSession(entry.value, now),
                                    now, SessionTTL)
          /\ last' = SessionCall("validateWebSession", entry.value.adminId, sessionId,
                                 TRUE, "valid")
  /\ UNCHANGED <<now, admins, refresh, sessionCount, procs,
                 tokenVars, orderVars, notifyVars, chatVars, rateVars, payVars>>

\* the admin row is deactivated, reactivated or deleted by the admin management
SetAdminState(adminId, state) ==
  /\ admins[adminId] # state
  /\ admins' = [admins EXCEPT ![adminId] = state]
  /\ last' = SessionCall("setAdmin", adminId, None, FALSE, state)
  /\ UNCHANGED <<now, sessions, refresh, sessionCount, procs,
                 tokenVars, orderVars, notifyVars, chatVars, rateVars, payVars>>

\* the clock of the sessions advances; Redis evicts the session and refresh
\* keys whose TTL has run out
TickSession ==
  /\ now < MaxSessionTime
  /\ now' = now + 1
  /\ \E S \in SUBSET Due(sessions, now + 1) :
       /\ Overdue(sessions, now + 1) \subseteq S
       /\ sessions' = Evict(sessions, S)
  /\ \E S \in SUBSET Due(refresh, now + 1) :
       /\ Overdue(refresh, now + 1) \subseteq S
       /\ refresh' = Evict(refresh, S)
  /\ last' = SessionCall("tick", None, None, FALSE, "")
  /\ UNCHANGED <<admins, sessionCount, procs, tokenVars, orderVars, notifyVars, chatVars, rateVars, payVars>>

(***************************************************************************)
(* SupportService                                                          *)
(***************************************************************************)
ChatUsers == {1, 2}
ChatIds == 1..MaxChats

\* enum ChatStatus
ChatStatus == {"OPEN", "IN_PROGRESS", "WAITING_USER", "WAITING_ADMIN", "CLOSED"}

\* senderType: 'user' | 'admin'
SenderTypes == {"user", "admin"}

ChatExists(chatId) == chatId \in 1..Len(chats)

\* the record of a call of SupportService
ChatCall(op, userId, chatId, outcome) ==
  [op |-> op, userId |-> userId, chatId |-> chatId, outcome |-> outcome]

\* lrem key 1 value: the list without the first element equal to value
LRem(q, value) ==
  LET hits == {i \in 1..Len(q) : q[i] = value}
  IN  IF hits = {} THEN q
      ELSE LET first == CHOOSE i \in hits : \A j \in hits : i <= j
           IN  SubSeq(q, 1, first - 1) \o SubSeq(q, first + 1, Len(q))

\* addToSupportQueue(chatId, priority): the entry of a chat is named by its id
AddToSupportQueue(q, chatId) == LPush(q, chatId)

\* removeFromSupportQueue(chatId): the first entry of the chat, if there is one
RemoveFromSupportQueue(q, chatId) == LRem(q, chatId)

\* updateChatStatus(chatId, status)
UpdateChatStatus(db, chatId, status) == [db EXCEPT ![chatId].status = status]

\* the chats createSupportChat looks for before it creates one
ExistingChats(userId) ==
  {c \in 1..Len(chats) : /\ chats[c].userId = userId
                         /\ chats[c].status \in {"OPEN", "IN_PROGRESS", "WAITING_USER"}}

\* what addMessage does to the two tables: chatMessage.create, then
\* updateChatStatus with the status that follows from the sender
MessageRows(rows, chatId, senderType, messageType) ==
  Append(rows, [chatId |-> chatId, senderType |-> senderType, messageType |-> messageType])

ChatsAfterMessage(db, chatId, senderType) ==
  UpdateChatStatus(db, chatId, IF senderType = "user" THEN "WAITING_ADMIN" ELSE "WAITING_USER")

\* createSupportChat({userId, initialMessage}): an existing chat of the user
\* is returned; otherwise a chat is created OPEN, the initial message is
\* added through addMessage, and the chat is put on the support queue
CreateSupportChat(userId, initialMessage) ==
  /\ \/ /\ ExistingChats(userId) # {}
        /\ \E c \in ExistingChats(userId) :
             last' = ChatCall("createSupportChat", userId, c, "existing")
        /\ UNCHANGED chatVars
     \/ /\ ExistingChats(userId) = {}
        /\ Len(chats) < MaxChats
        /\ initialMessage => Len(messages) < MaxMessages
        /\ LET chatId == Len(chats) + 1
               created == Append(chats, [userId |-> userId, status |-> "OPEN", adminId |-> None])
           IN  /\ chats' = IF initialMessage
                           THEN ChatsAfterMessage(created, chatId, "user")
                           ELSE created
               /\ messages' = IF initialMessage
                              THEN MessageRows(messages, chatId, "user", "TEXT")
                              ELSE messages
               /\ supportQueue' = AddToSupportQueue(supportQueue, chatId)
               /\ last' = ChatCall("createSupportChat", userId, chatId, "created")
  /\ UNCHANGED <<now, tokenVars, orderVars, notifyVars, payVars, sessVars, procs, rateVars>>

\* addMessage({chatId, senderType, messageType}): chatMessage.create throws
\* when the chat does not exist; the publish of notifyNewMessage stores nothing
AddMessage(chatId, senderType, messageType) ==
  /\ IF ChatExists(chatId)
     THEN /\ Len(messages) < MaxMessages
          /\ messages' = MessageRows(messages, chatId, senderType, messageType)
          /\ chats' = ChatsAfterMessage(chats, chatId, senderType)
          /\ last' = ChatCall("addMessage", chats[chatId].userId, chatId, "ok")
     ELSE /\ last' = ChatCall("addMessage", None, chatId, "error")
          /\ UNCHANGED <<chats, messages>>
  /\ UNCHANGED <<now, supportQueue, tokenVars, orderVars, notifyVars, payVars, sessVars, procs,
                 rateVars>>

\* assignAdmin(chatId, adminId): supportChat.update to IN_PROGRESS (throws when
\* the chat does not exist), removeFromSupportQueue, then addMessage of a
\* SYSTEM message with senderType 'admin'
AssignAdmin(chatId, adminId) ==
  /\ IF ChatExists(chatId)
     THEN /\ Len(messages) < MaxMessages
          /\ LET assigned == [chats EXCEPT ![chatId].adminId = adminId,
                                           ![chatId].status = "IN_PROGRESS"]
             IN  chats' = ChatsAfterMessage(assigned, chatId, "admin")
          /\ supportQueue' = RemoveFromSupportQueue(supportQueue, chatId)
          /\ messages' = MessageRows(messages, chatId, "admin", "SYSTEM")
          /\ last' = ChatCall("assignAdmin", chats[chatId].userId, chatId, "ok")
     ELSE /\ last' = ChatCall("assignAdmin", None, chatId, "error")
          /\ UNCHANGED chatVars
  /\ UNCHANGED <<now, tokenVars, orderVars, notifyVars, payVars, sessVars, procs, rateVars>>

\* closeChat(chatId, closedBy): supportChat.update to CLOSED (throws when the
\* chat does not exist), addMessage of a SYSTEM message with senderType
\* closedBy, then removeFromSupportQueue
CloseChat(chatId, closedBy) ==
  /\ IF ChatExists(chatId)
     THEN /\ Len(messages) < MaxMessages
          /\ LET closed == UpdateChatStatus(chats, chatId, "CLOSED")
             IN  chats' = ChatsAfterMessage(closed, chatId, closedBy)
          /\ messages' = MessageRows(messages, chatId, closedBy, "SYSTEM")
          /\ supportQueue' = RemoveFromSupportQueue(supportQueue, chatId)
          /\ last' = ChatCall("closeChat", chats[chatId].userId, chatId, "ok")
     ELSE /\ last' = ChatCall("closeChat", None, chatId, "error")
          /\ UNCHANGED chatVars
  /\ UNCHANGED <<now, tokenVars, orderVars, notifyVars, payVars, sessVars, procs, rateVars>>

(***************************************************************************)
(* Calls that run await by await                                           *)
(*                                                                         *)
(* A caller is in at most one call.  pc is the index, in the step list of  *)
(* the call, of the await the call runs next; a call whose pc is past the  *)
(* list has returned.                                                      *)
(***************************************************************************)
\* two callers, so that two calls can overlap
Procs == {1, 2}

Idle == [op |-> "idle", pc |-> 0]

\* the step a call runs next, "" when it has returned
StepOf(call, steps) == IF call.pc \in 1..Len(steps) THEN steps[call.pc] ELSE ""

Returned(call, steps) == call.pc > Len(steps)

\* the awaits of generateDashboardAccess, in the order of the code
IssueSteps == <<"revokeDb", "revokeCache", "create", "mirror">>

\* markTokenAsUsed with the mirror deleted before the durable record is marked
ConsumeSteps_DeleteFirst == <<"delMirror", "markDb">>

\* the awaits of markTokenAsUsed, in the order of the code
ConsumeSteps == <<"markDb", "delMirror">>

\* a create that marks the other live records of the admin used in the same statement
CreateRecord_Revoking(db, record, at) ==
  Append(RevokeInDb(db, record.adminId, at), record)

\* prisma.adminDashboardToken.create
CreateRecord(db, record, at) == Append(db, record)

\* the number of generateDashboardAccess calls that have not created their record
IssuesToCome ==
  Cardinality({p \in Procs : procs[p].op = "issue" /\ procs[p].token = None})

\* generateDashboardAccess(adminId) is called
StartIssue(p, adminId) ==
  /\ procs[p].op = "idle"
  /\ Len(tokens) + IssuesToCome < MaxTokens
  /\ procs' = [procs EXCEPT ![p] = [op |-> "issue", pc |-> 1, adminId |-> adminId,
                                    token |-> None, seen |-> None, expiresAt |-> None]]
  /\ UNCHANGED <<now, last, tokenVars, orderVars, notifyVars, chatVars, rateVars, payVars, sessVars>>

\* one await of generateDashboardAccess. token is the fresh generateId value;
\* seen is the number of records the store held when the call revoked
IssueStep(p) ==
  LET call == procs[p]
      step == StepOf(call, IssueSteps)
      token == IF call.token = None THEN Len(tokens) + 1 ELSE call.token
      expiresAt == IF call.expiresAt = None THEN now + TokenTTL ELSE call.expiresAt
      record == [adminId |-> call.adminId, accessKey |-> token,
                 expiresAt |-> expiresAt, isUsed |-> FALSE]
  IN /\ call.op = "issue"
     /\ step # ""
     /\ CASE step = "revokeDb" ->
               /\ tokens' = RevokeInDb(tokens, call.adminId, now)
               /\ procs' = [procs EXCEPT ![p].pc = @ + 1, ![p].seen = Len(tokens)]
               /\ UNCHANGED <<cache, pending>>
          [] step = "revokeCache" ->
               /\ cache' = RevokeInCache(cache, pending, call.adminId)
               /\ pending' = RevokePending(pending, call.adminId)
               /\ procs' = [procs EXCEPT ![p].pc = @ + 1]
               /\ UNCHANGED tokens
          [] step = "create" ->
               /\ tokens' = CreateRecord(tokens, record, now)
               /\ procs' = [procs EXCEPT ![p].pc = @ + 1, ![p].token = token,
                                         ![p].expiresAt = expiresAt]
               /\ UNCHANGED <<cache, pending>>
          [] step = "mirror" ->
               /\ cache' = SetWithTTL(cache, token, record, now, TokenTTL)
               /\ procs' = [procs EXCEPT ![p].pc = @ + 1]
               /\ UNCHANGED <<tokens, pending>>
     /\ UNCHANGED <<now, last, orderVars, notifyVars, chatVars, rateVars, payVars, sessVars>>

\* markTokenAsUsed(token) is called
StartConsume(p, token) ==
  /\ procs[p].op = "idle"
  /\ procs' = [procs EXCEPT ![p] = [op |-> "consume", pc |-> 1, token |-> token]]
  /\ UNCHANGED <<now, last, tokenVars, orderVars, notifyVars, chatVars, rateVars, payVars, sessVars>>

\* one await of markTokenAsUsed
ConsumeStep(p) ==
  LET call == procs[p]
      step == StepOf(call, ConsumeSteps)
  IN /\ call.op = "consume"
     /\ step # ""
     /\ CASE step = "markDb" ->
               /\ tokens' = MarkUsedInDb(tokens, call.token, now)
               /\ UNCHANGED cache
          [] step = "delMirror" ->
               /\ cache' = Del(cache, call.token)
               /\ UNCHANGED tokens
     /\ procs' = [procs EXCEPT ![p].pc = @ + 1]
     /\ UNCHANGED <<now, last, pending, orderVars, notifyVars, chatVars, rateVars, payVars, sessVars>>

\* the awaits of getShippingOrder / getPurchaseOrder, in the order of the code
GetSteps == <<"cacheRead", "storeRead", "cacheWrite">>

\* the awaits of updateShippingOrderStatus / updatePurchaseOrderStatus, in the
\* order of the code: those of the get it starts with, then its three writes
TransitionSteps == <<"cacheRead", "storeRead", "cacheWrite", "update", "history", "cache">>

\* the awaits of updateTransactionStatus(id, COMPLETED), in the order of the
\* code: the status, then the read and the write of updateUserBalance, then
\* the cache (the Redis key of the user profile is not part of the model)
CompleteSteps == <<"statusWrite", "balanceRead", "balanceWrite", "txCache">>

\* the awaits of createWithdrawal: its balance test, those of createTransaction,
\* then those of updateTransactionStatus(id, COMPLETED)
WithdrawSteps ==
  <<"balanceCheck", "txCreate", "txCacheNew",
    "statusWrite", "balanceRead", "balanceWrite", "txCache">>

\* rateLimit(maxRequests, windowMs) of the bot middleware: the maxRequests the
\* middleware is built with
MaxRequests == 2

\* the awaits of one request in rateLimit: redis.get, then reply (and return)
\* or setWithTTL or incr, then next()
RateSteps == <<"get", "count", "next">>

\* current ? parseInt(current) : 0, on what RedisHelper.get parsed
Requests(entry) == IF entry.present /\ entry.value # 0 THEN entry.value ELSE 0

\* setWithTTL(key, '1', windowMs / 1000): setex, the key carries an expiry
SetCounter(c, key, value) ==
  [c EXCEPT ![key] = [present |-> TRUE, value |-> value, expires |-> TRUE]]

\* incr(key): Redis INCR; an existing key keeps its expiry, a missing key is
\* created as 1 and carries none
IncrCounter(c, key) ==
  [c EXCEPT ![key] = IF @.present
                     THEN [@ EXCEPT !.value = @ + 1]
                     ELSE [present |-> TRUE, value |-> 1, expires |-> FALSE]]

\* a request of the user enters the middleware
StartRateLimit(p, userId) ==
  /\ procs[p].op = "idle"
  /\ procs' = [procs EXCEPT ![p] = [op |-> "rateLimit", pc |-> 1, userId |-> userId,
                                    requests |-> 0, outcome |-> ""]]
  /\ UNCHANGED <<now, last, tokenVars, orderVars, notifyVars, payVars, sessVars, chatVars,
                 rateVars>>

\* the next await of a request in rateLimit
RateLimitStep(p) ==
  LET call == procs[p]
      step == StepOf(call, RateSteps)
  IN /\ call.op = "rateLimit"
     /\ step # ""
     /\ CASE step = "get" ->
               /\ procs' = [procs EXCEPT ![p].pc = @ + 1,
                                         ![p].requests = Requests(rateKeys[call.userId])]
               /\ UNCHANGED rateVars
          [] step = "count" ->
               IF call.requests >= MaxRequests
               THEN /\ procs' = [procs EXCEPT ![p].pc = Len(RateSteps) + 1,
                                              ![p].outcome = "refused"]
                    /\ UNCHANGED rateVars
               ELSE /\ rateKeys' = IF call.requests = 0
                                   THEN SetCounter(rateKeys, call.userId, 1)
                                   ELSE IncrCounter(rateKeys, call.userId)
                    /\ admits' = [admits EXCEPT ![call.userId] = @ + 1]
                    /\ procs' = [procs EXCEPT ![p].pc = @ + 1]
          [] step = "next" ->
               /\ procs' = [procs EXCEPT ![p].pc = @ + 1, ![p].outcome = "admitted"]
               /\ UNCHANGED rateVars
     /\ UNCHANGED <<now, last, tokenVars, orderVars, notifyVars, payVars, sessVars, chatVars>>

\* Redis drops a counter key whose expiry has come: the window of the user is
\* over.  A key without an expiry is never dropped
ExpireRateKey(userId) ==
  /\ rateKeys[userId].present
  /\ rateKeys[userId].expires
  /\ rateKeys' = [rateKeys EXCEPT ![userId] = NoEntry]
  /\ admits' = [admits EXCEPT ![userId] = 0]
  /\ UNCHANGED <<now, last, tokenVars, orderVars, notifyVars, payVars, sessVars, chatVars,
                 procs>>

\* the step list of a call
StepsOf(call) ==
  CASE call.op = "issue" -> IssueSteps
    [] call.op = "consume" -> ConsumeSteps
    [] call.op = "get" -> GetSteps
    [] call.op = "transition" -> TransitionSteps
    [] call.op = "complete" -> CompleteSteps
    [] call.op = "withdraw" -> WithdrawSteps
    [] call.op = "rateLimit" -> RateSteps
    [] OTHER -> <<>>

\* the index of a step in a step list
IndexOf(steps, name) == CHOOSE i \in 1..Len(steps) : steps[i] = name

\* the number of status updates that have not written their history row
HistoryRowsToCome ==
  Cardinality({p \in Procs : procs[p].op = "transition" /\ procs[p].row = None
                             /\ procs[p].outcome = ""})

\* getShippingOrder / getPurchaseOrder(orderId) is called
StartGet(p, type, orderId) ==
  /\ procs[p].op = "idle"
  /\ procs' = [procs EXCEPT ![p] = [op |-> "get", pc |-> 1, type |-> type,
                                    orderId |-> orderId, current |-> NullOrder,
                                    outcome |-> ""]]
  /\ UNCHANGED <<now, last, tokenVars, orderVars, notifyVars, chatVars, rateVars, payVars, sessVars>>

\* updateShippingOrderStatus / updatePurchaseOrderStatus(orderId, newStatus) is
\* called. replaced is the durable status the update overwrote, row the index
\* of the history row the call wrote
StartTransition(p, type, orderId, newStatus) ==
  /\ procs[p].op = "idle"
  /\ Len(history) + HistoryRowsToCome < MaxHistory
  /\ procs' = [procs EXCEPT ![p] = [op |-> "transition", pc |-> 1, type |-> type,
                                    orderId |-> orderId, newStatus |-> newStatus,
                                    current |-> NullOrder, updated |-> NullOrder,
                                    replaced |-> NoStatus, row |-> None,
                                    outcome |-> ""]]
  /\ UNCHANGED <<now, last, tokenVars, orderVars, notifyVars, chatVars, rateVars, payVars, sessVars>>

\* one await of the read-through that getShippingOrder / getPurchaseOrder is,
\* on its own or as the first statement of a status update
ReadThroughStep(p) ==
  LET call == procs[p]
      steps == StepsOf(call)
      step == StepOf(call, steps)
      cached == GetCachedOrder(orderCache, call.orderId, call.type)
      order == IF OrderExists(call.type, call.orderId)
               THEN StoredOrder(orders[call.type][call.orderId])
               ELSE NullOrder
      \* where the call goes on once it has its order
      onward == IF call.op = "get" THEN Len(steps) + 1 ELSE IndexOf(steps, "update")
  IN /\ call.op \in {"get", "transition"}
     /\ step \in {"cacheRead", "storeRead", "cacheWrite"}
     /\ CASE step = "cacheRead" ->
               /\ procs' = [procs EXCEPT
                              ![p].current = cached,
                              ![p].pc = IF cached.found THEN onward ELSE @ + 1,
                              ![p].outcome = IF cached.found /\ call.op = "get"
                                             THEN "ok" ELSE ""]
               /\ UNCHANGED orderCache
          [] step = "storeRead" ->
               /\ procs' = [procs EXCEPT
                              ![p].current = order,
                              ![p].pc = IF order.found THEN @ + 1 ELSE Len(steps) + 1,
                              ![p].outcome = IF order.found THEN ""
                                             ELSE IF call.op = "get" THEN "null"
                                             ELSE "NotFound"]
               /\ UNCHANGED orderCache
          [] step = "cacheWrite" ->
               /\ orderCache' = CacheOrder(orderCache, call.orderId, call.current,
                                           call.type, now)
               /\ procs' = [procs EXCEPT
                              ![p].pc = onward,
                              ![p].outcome = IF call.op = "get" THEN "ok" ELSE ""]
     /\ UNCHANGED <<now, last, tokenVars, orders, history, transitions, faults,
                    notifyVars, chatVars, rateVars, payVars, sessVars>>

\* one await of the writes of updateShippingOrderStatus / updatePurchaseOrderStatus
TransitionStep(p) ==
  LET call == procs[p]
      step == StepOf(call, TransitionSteps)
      updatedOrder == [orders[call.type][call.orderId] EXCEPT
                         !.status = call.newStatus, !.updatedAt = DateOf(now)]
  IN /\ call.op = "transition"
     /\ step \in {"update", "history", "cache"}
     /\ CASE step = "update" ->
               /\ orders' = [orders EXCEPT ![call.type][call.orderId] = updatedOrder]
               /\ procs' = [procs EXCEPT
                              ![p].pc = @ + 1,
                              ![p].updated = StoredOrder(updatedOrder),
                              ![p].replaced = orders[call.type][call.orderId].status]
               /\ UNCHANGED <<history, orderCache>>
          [] step = "history" ->
               /\ history' = CreateStatusHistory(history, call.orderId, call.type,
                                                 call.current.status, call.newStatus)
               /\ procs' = [procs EXCEPT ![p].pc = @ + 1, ![p].row = Len(history) + 1]
               /\ UNCHANGED <<orders, orderCache>>
          [] step = "cache" ->
               /\ orderCache' = CacheOrder(orderCache, call.orderId, call.updated,
                                           call.type, now)
               /\ procs' = [procs EXCEPT ![p].pc = @ + 1]
               /\ UNCHANGED <<orders, history>>
     /\ transitions' = IF call.pc = Len(TransitionSteps)
                       THEN [transitions EXCEPT ![call.type][call.orderId] = @ + 1]
                       ELSE transitions
     /\ UNCHANGED <<now, last, tokenVars, faults, notifyVars, chatVars, rateVars, payVars, sessVars>>

\* the number of createWithdrawal calls that have not created their transaction
TransactionsToCome ==
  Cardinality({p \in Procs : procs[p].op = "withdraw" /\ procs[p].txId = None
                             /\ procs[p].outcome = ""})

\* updateTransactionStatus(transactionId, COMPLETED) is called. startBalance is
\* the stored balance of the owner at the time of the call
StartComplete(p, transactionId) ==
  /\ procs[p].op = "idle"
  /\ TxExists(transactionId)
  /\ procs' = [procs EXCEPT ![p] =
                 [op |-> "complete", pc |-> 1, userId |-> txs[transactionId].userId,
                  txId |-> transactionId, amount |-> txs[transactionId].amount,
                  type |-> txs[transactionId].type, read |-> None,
                  startBalance |-> balance[txs[transactionId].userId], outcome |-> ""]]
  /\ UNCHANGED <<now, last, tokenVars, orderVars, notifyVars, chatVars, rateVars, payVars, sessVars>>

\* createWithdrawal(userId, amount) is called
StartWithdraw(p, userId, amount) ==
  /\ procs[p].op = "idle"
  /\ Len(txs) + TransactionsToCome < MaxTransactions
  /\ procs' = [procs EXCEPT ![p] =
                 [op |-> "withdraw", pc |-> 1, userId |-> userId, txId |-> None,
                  amount |-> amount, type |-> "WITHDRAWAL", read |-> None,
                  startBalance |-> balance[userId], outcome |-> ""]]
  /\ UNCHANGED <<now, last, tokenVars, orderVars, notifyVars, chatVars, rateVars, payVars, sessVars>>

\* one await of updateTransactionStatus(id, COMPLETED) or of createWithdrawal
PaymentStep(p) ==
  LET call == procs[p]
      steps == StepsOf(call)
      step == StepOf(call, steps)
      newBalance == IF call.type = "WITHDRAWAL" THEN call.read - call.amount
                    ELSE call.read + call.amount
      transaction == [userId |-> call.userId, type |-> call.type,
                      amount |-> call.amount, status |-> "PENDING"]
  IN /\ call.op \in {"complete", "withdraw"}
     /\ step # ""
     /\ CASE step = "balanceCheck" ->
               \* if (!user || user.balance < amount) throw
               /\ procs' = [procs EXCEPT
                              ![p].pc = IF balance[call.userId] < call.amount
                                        THEN Len(steps) + 1 ELSE @ + 1,
                              ![p].outcome = IF balance[call.userId] < call.amount
                                             THEN "InsufficientBalance" ELSE ""]
               /\ UNCHANGED payVars
          [] step = "txCreate" ->
               /\ txs' = Append(txs, transaction)
               /\ procs' = [procs EXCEPT ![p].pc = @ + 1, ![p].txId = Len(txs) + 1]
               /\ UNCHANGED <<balance, txCache>>
          [] step = "txCacheNew" ->
               /\ txCache' = CacheTransaction(txCache, call.txId, transaction, now)
               /\ procs' = [procs EXCEPT ![p].pc = @ + 1]
               /\ UNCHANGED <<balance, txs>>
          [] step = "statusWrite" ->
               /\ txs' = [txs EXCEPT ![call.txId].status = "COMPLETED"]
               /\ procs' = [procs EXCEPT ![p].pc = @ + 1]
               /\ UNCHANGED <<balance, txCache>>
          [] step = "balanceRead" ->
               \* findUnique, then the test of newBalance
               /\ procs' = [procs EXCEPT
                              ![p].read = balance[call.userId],
                              ![p].pc = IF /\ call.type = "WITHDRAWAL"
                                           /\ balance[call.userId] - call.amount < 0
                                        THEN Len(steps) + 1 ELSE @ + 1,
                              ![p].outcome = IF /\ call.type = "WITHDRAWAL"
                                                /\ balance[call.userId] - call.amount < 0
                                             THEN "InsufficientBalance" ELSE ""]
               /\ UNCHANGED payVars
          [] step = "balanceWrite" ->
               /\ newBalance <= MaxBalance
               /\ balance' = [balance EXCEPT ![call.userId] = newBalance]
               /\ procs' = [procs EXCEPT ![p].pc = @ + 1]
               /\ UNCHANGED <<txs, txCache>>
          [] step = "txCache" ->
               /\ txCache' = CacheTransaction(txCache, call.txId, txs[call.txId], now)
               /\ procs' = [procs EXCEPT ![p].pc = @ + 1, ![p].outcome = "ok"]
               /\ UNCHANGED <<balance, txs>>
     /\ UNCHANGED <<now, last, tokenVars, orderVars, notifyVars, chatVars, rateVars, sessVars>>

\* the caller of a call that has returned is free for its next call
Return(p) ==
  /\ procs[p].op # "idle"
  /\ Returned(procs[p], StepsOf(procs[p]))
  /\ procs' = [procs EXCEPT ![p] = Idle]
  /\ UNCHANGED <<now, last, tokenVars, orderVars, notifyVars, chatVars, rateVars, payVars, sessVars>>

\* the clock advances; Redis evicts keys whose TTL has run out
Tick ==
  /\ now < MaxTime
  /\ now' = now + 1
  /\ \E S \in SUBSET Due(cache, now + 1) :
       /\ Overdue(cache, now + 1) \subseteq S
       /\ cache' = Evict(cache, S)
  /\ \E S \in SUBSET Due(orderCache, now + 1) :
       /\ Overdue(orderCache, now + 1) \subseteq S
       /\ orderCache' = Evict(orderCache, S)
  /\ last' = Call("tick", None, None, None, "", None, 0)
  /\ UNCHANGED <<tokens, pending, orders, history, transitions, faults, notifyVars, payVars,
                 otherVars>>

\* the state after construction, but for the balances
InitStores ==
  /\ now = 0
  /\ tokens = <<>>
  /\ cache = [t \in TokenIds |-> NoEntry]
  /\ pending = [a \in Admins |-> None]
  /\ last = Call("init", None, None, None, "", None, 0)
  /\ orders = [type \in OrderTypes |-> <<>>]
  /\ history = <<>>
  /\ orderCache = [o \in OrderIds |-> NoEntry]
  /\ transitions = [type \in OrderTypes |-> [o \in OrderIds |-> 0]]
  /\ faults = 0
  /\ notifications = <<>>
  /\ pushQueue = <<>>
  /\ unread = 0
  /\ txs = <<>>
  /\ txCache = [t \in TxIds |-> NoEntry]
  /\ admins = [a \in Admins |-> "active"]
  /\ sessions = [i \in SessionIds |-> NoEntry]
  /\ refresh = [i \in SessionIds |-> NoEntry]
  /\ sessionCount = 0
  /\ procs = [p \in Procs |-> Idle]
  /\ chats = <<>>
  /\ messages = <<>>
  /\ supportQueue = <<>>
  /\ rateKeys = [u \in Users |-> NoEntry]
  /\ admits = [u \in Users |-> 0]

Init ==
  /\ InitStores
  /\ balance = [u \in Users |-> 0]

\* a user who has a balance before the first withdrawal
InitWithdrawal ==
  /\ InitStores
  /\ balance = [u \in Users |-> InitialBalance]

Next ==
  \/ \E a \in Admins : GenerateDashboardAccess(a)
  \/ \E t \in TokenIds, k \in Keys : ValidateDashboardToken(t, k)
  \/ \E t \in TokenIds : MarkTokenAsUsed(t)
  \/ \E a \in Admins : RevokeAdminTokens(a)
  \/ Tick

Spec == Init /\ [][Next]_vars

\* the ids of the stored orders of a kind
IdsStored(type) == 1..Len(orders[type])

\* the order ids a caller may ask for: the stored ones and the first one that is
\* not stored (every id that is not stored is answered alike)
IdsAsked(type) == {o \in OrderIds : o <= Len(orders[type]) + 1}

\* the order lifecycle on its own: calls on the stored orders that follow one
\* another within the lifetime of the cache entries
NextOrder ==
  \/ \E type \in OrderTypes : CreateOrder(type)
  \/ \E type \in OrderTypes : \E o \in IdsStored(type) : GetOrder(type, o)
  \/ \E type \in OrderTypes : \E o \in IdsStored(type) :
       \E s \in StatusesOf(type) : UpdateOrderStatus(type, o, s)
  \/ \E type \in OrderTypes : \E o \in IdsStored(type) : \E n \in TrackNumbers :
       AddTrackingNumber(o, n, type)

SpecOrder == Init /\ [][NextOrder]_vars

\* reads and status updates that may name an order that is not stored
NextOrderLookup ==
  \/ \E type \in OrderTypes : CreateOrder(type)
  \/ \E type \in OrderTypes : \E o \in IdsAsked(type) : GetOrder(type, o)
  \/ \E type \in OrderTypes : \E o \in IdsAsked(type) :
       \E s \in StatusesOf(type) : UpdateOrderStatus(type, o, s)

SpecOrderLookup == Init /\ [][NextOrderLookup]_vars

\* the calls a create or a status update makes, in the order it makes them
FailingCalls == {"create", "update", "history", "cache"}

\* creates and status updates when calls to the store and to Redis can fail
NextOrderFault ==
  \/ \E type \in OrderTypes : CreateOrder(type)
  \/ \E type \in OrderTypes, o \in OrderIds :
       \E s \in StatusesOf(type) : UpdateOrderStatus(type, o, s)
  \/ \E type \in OrderTypes, failed \in FailingCalls \ {"update"} :
       CreateOrderFails(type, failed)
  \/ \E type \in OrderTypes, o \in OrderIds, failed \in FailingCalls \ {"create"} :
       \E s \in StatusesOf(type) : UpdateOrderStatusFails(type, o, s, failed)

SpecOrderFault == Init /\ [][NextOrderFault]_vars

\* the order lifecycle and the notifications about it
NextNotify ==
  \/ \E type \in OrderTypes : CreateOrder(type)
  \/ \E type \in OrderTypes, o \in OrderIds :
       \E s \in StatusesOf(type) : UpdateOrderStatus(type, o, s)
  \/ \E i \in 1..Len(history) :
       SendOrderStatusUpdate(history[i].orderId, history[i].orderType,
                             history[i].oldStatus, history[i].newStatus)

SpecNotify == Init /\ [][NextNotify]_vars

\* the transactions and the balance
NextPayment ==
  \/ \E u \in Users, a \in Amounts, t \in TransactionType : CreateTransaction(u, a, t)
  \/ \E id \in TxIds, st \in TransactionStatus : UpdateTransactionStatus(id, st)
  \/ \E u \in Users, a \in Amounts : CreateWithdrawal(u, a)

SpecPayment == Init /\ [][NextPayment]_vars

\* the withdrawals of a user who starts with a balance: createWithdrawal, and
\* WITHDRAWAL transactions created and then given a status
NextWithdrawal ==
  \/ \E u \in Users, a \in Amounts : CreateWithdrawal(u, a)
  \/ \E u \in Users, a \in Amounts : CreateTransaction(u, a, "WITHDRAWAL")
  \/ \E id \in TxIds, st \in TransactionStatus : UpdateTransactionStatus(id, st)

SpecWithdrawal == InitWithdrawal /\ [][NextWithdrawal]_vars

\* one caller, whose calls run await by await. The token service and the
\* order service share no state: a run is a run of token calls or a run of
\* calls on shipping orders
NextSteps ==
  \/ /\ Len(history) = 0
     /\ \/ \E a \in Admins : StartIssue(1, a)
        \/ IssueStep(1)
        \/ \E t \in TokenIds : StartConsume(1, t)
        \/ ConsumeStep(1)
  \/ /\ Len(tokens) = 0
     /\ procs[1].op \notin {"issue", "consume"}
     /\ \/ procs[1].op = "idle" /\ CreateOrder("shipping")
        \/ \E o \in IdsStored("shipping"), st \in OrderStatus :
             StartTransition(1, "shipping", o, st)
        \/ ReadThroughStep(1)
        \/ TransitionStep(1)
  \/ Return(1)

SpecSteps == Init /\ [][NextSteps]_vars

\* two callers whose token calls overlap
NextIssueRace ==
  \E p \in Procs :
    \/ \E a \in Admins : StartIssue(p, a)
    \/ IssueStep(p)
    \/ \E t \in TokenIds : StartConsume(p, t)
    \/ ConsumeStep(p)
    \/ Return(p)

SpecIssueRace == Init /\ [][NextIssueRace]_vars

\* two callers whose reads and status updates of shipping orders overlap; a
\* purchase order created under the same id takes the cache key over
NextOrderRace ==
  \/ \E type \in OrderTypes : CreateOrder(type)
  \/ \E p \in Procs :
       \/ \E o \in IdsStored("shipping") : StartGet(p, "shipping", o)
       \/ \E o \in IdsStored("shipping"), st \in OrderStatus :
            StartTransition(p, "shipping", o, st)
       \/ ReadThroughStep(p)
       \/ TransitionStep(p)
       \/ Return(p)

SpecOrderRace == Init /\ [][NextOrderRace]_vars

\* the transactions that wait for their completion
PendingTxs == {id \in TxIds : TxExists(id) /\ txs[id].status = "PENDING"}

\* two callers whose completions of pending transactions and withdrawals
\* overlap, for a user who starts with a balance
NextBalanceRace ==
  \/ \E u \in Users, a \in Amounts, t \in {"PAYMENT", "WITHDRAWAL"} :
       CreateTransaction(u, a, t)
  \/ \E p \in Procs :
       \/ \E id \in PendingTxs : StartComplete(p, id)
       \/ \E u \in Users, a \in Amounts : StartWithdraw(p, u, a)
       \/ PaymentStep(p)
       \/ Return(p)

SpecBalanceRace == InitWithdrawal /\ [][NextBalanceRace]_vars

\* the support chats, one call after another; the calls name chats that exist
NextSupport ==
  \/ \E u \in ChatUsers, initialMessage \in BOOLEAN : CreateSupportChat(u, initialMessage)
  \/ \E c \in 1..Len(chats), s \in SenderTypes : AddMessage(c, s, "TEXT")
  \/ \E c \in 1..Len(chats), a \in Admins : AssignAdmin(c, a)
  \/ \E c \in 1..Len(chats), s \in SenderTypes : CloseChat(c, s)

SpecSupport == Init /\ [][NextSupport]_vars

\* createSupportChat and addMessage only, one call after another; an
\* addMessage may name a chat that does not exist
NextSupportUser ==
  \/ \E u \in ChatUsers, initialMessage \in BOOLEAN : CreateSupportChat(u, initialMessage)
  \/ \E c \in ChatIds, s \in SenderTypes : AddMessage(c, s, "TEXT")

SpecSupportUser == Init /\ [][NextSupportUser]_vars

\* two callers whose requests of one user overlap in rateLimit, and the expiry
\* of the counter key
NextRateLimit ==
  \/ \E p \in Procs :
       \/ \E u \in Users : StartRateLimit(p, u)
       \/ RateLimitStep(p)
       \/ Return(p)
  \/ \E u \in Users : ExpireRateKey(u)

SpecRateLimit == Init /\ [][NextRateLimit]_vars

\* the web sessions, the admin rows they depend on, and time
NextSession ==
  \/ \E a \in Admins : CreateWebSession(a)
  \/ \E i \in SessionIds : ValidateWebSession(i)
  \/ \E a \in Admins, st \in AdminStates : SetAdminState(a, st)
  \/ TickSession

SpecSession == Init /\ [][NextSession]_vars

(***************************************************************************)
(* Properties of the dashboard token lifecycle                             *)
(***************************************************************************)
\* the access key stored with token t in the durable store
KeyOf(t) == tokens[t].accessKey

\* token t is refused as already used when it is presented with its own key
AlreadyUsedFor(t) ==
  Exists(t) /\ ValidateResult(t, KeyOf(t)).error = "AlreadyUsed"

\* t has just been consumed by the markTokenAsUsed that followed its successful validation
ConsumedAfterValid(t) ==
  last.op = "consume" /\ last.token = t /\ last.result = "AfterValid"

\* the tokens of adminId that are unused and unexpired in the durable store
LiveTokens(adminId) ==
  {t \in 1..Len(tokens) :
     tokens[t].adminId = adminId /\ ~tokens[t].isUsed /\ tokens[t].expiresAt > now}

\* C1: after generateDashboardAccess(A) followed immediately by a second
\* generateDashboardAccess(A), validating the first call's token with the first
\* call's access key is refused with AlreadyUsed or NotFound, and the second
\* call's token validates with the second call's key.
C1_ReissueInvalidatesFirst ==
  (last.op = "issue" /\ last.run = 2) =>
     /\ ValidateResult(Len(tokens) - 1, KeyOf(Len(tokens) - 1)).error
          \in {"AlreadyUsed", "NotFound"}
     /\ ValidateResult(Len(tokens), KeyOf(Len(tokens))).valid

\* C2: once a token has been validated successfully and then consumed, every
\* later validation of it with its own access key is refused with AlreadyUsed:
\* the markTokenAsUsed that follows the successful validation leaves the token
\* refused as AlreadyUsed, and no later step takes a token out of that refusal.
C2_ConsumedStaysUsed ==
  [][\A t \in TokenIds :
       /\ ConsumedAfterValid(t)' => AlreadyUsedFor(t)'
       /\ AlreadyUsedFor(t) => AlreadyUsedFor(t)']_vars

C2_Witness ==
  \E t \in TokenIds : ConsumedAfterValid(t) /\ Exists(t)

\* C3 as stated: validating a token whose expiresAt is in the past returns
\* Expired whatever key is supplied, and leaves no cache mirror for it.
C3_ExpiredForAnyKey ==
  (last.op = "validate" /\ Exists(last.token) /\ now > tokens[last.token].expiresAt)
    => (last.result = "Expired" /\ ~cache[last.token].present)

\* C3 amended: validating a token whose expiresAt is in the past and which is
\* unused in the durable store returns Expired when the supplied key is the
\* stored one, and then no cache mirror is left for it; with another key it
\* returns KeyMismatch.
C3_ExpiredForOwnKey ==
  (/\ last.op = "validate" /\ Exists(last.token)
   /\ now > tokens[last.token].expiresAt /\ ~tokens[last.token].isUsed)
    => IF last.key = KeyOf(last.token)
       THEN last.result = "Expired" /\ ~cache[last.token].present
       ELSE last.result = "KeyMismatch"

C3_Witness ==
  /\ last.op = "validate" /\ Exists(last.token)
  /\ now > tokens[last.token].expiresAt /\ ~tokens[last.token].isUsed
  /\ last.key = KeyOf(last.token) /\ last.result = "Expired"

\* C4: in every state, validating an existing token with a key different from
\* its stored access key is refused with KeyMismatch, never accepted.
C4_WrongKeyRefused ==
  /\ \A t \in TokenIds, k \in Keys :
       (Exists(t) /\ k # KeyOf(t)) => ValidateResult(t, k).error = "KeyMismatch"
  /\ (last.op = "validate" /\ Exists(last.token) /\ last.key # KeyOf(last.token))
       => last.result = "KeyMismatch"

C4_Witness ==
  /\ last.op = "validate" /\ Exists(last.token)
  /\ last.key # KeyOf(last.token) /\ last.result = "KeyMismatch"
  /\ ~tokens[last.token].isUsed /\ now <= tokens[last.token].expiresAt

\* C5: revokeAdminTokens(adminId) leaves every token of that admin that was
\* unused and unexpired before the call used in the durable store and without
\* a cache mirror, so that it no longer validates.
C5_RevokeAllInvalidates ==
  [][last'.op = "revoke" =>
       \A t \in TokenIds :
         (/\ Exists(t) /\ tokens[t].adminId = last'.adminId
          /\ ~tokens[t].isUsed /\ tokens[t].expiresAt > now)
           => /\ tokens'[t].isUsed
              /\ ~cache'[t].present
              /\ ~((ValidateResult(t, KeyOf(t)).valid)')]_vars

\* C6: for every admin the durable store holds at most one token that is
\* unused and whose expiresAt is in the future.
C6_OneLiveTokenPerAdmin ==
  \A a \in Admins : Cardinality(LiveTokens(a)) <= 1

C6_Witness ==
  \E a \in Admins :
    /\ Cardinality({t \in 1..Len(tokens) : tokens[t].adminId = a}) >= 2
    /\ Cardinality(LiveTokens(a)) = 1

\* C7: whenever a cache mirror exists for a token, its accessKey and isUsed
\* equal those of the token's durable record.
C7_MirrorAgreesWithStore ==
  \A t \in TokenIds :
    cache[t].present =>
      /\ Exists(t)
      /\ cache[t].value.accessKey = tokens[t].accessKey
      /\ cache[t].value.isUsed = tokens[t].isUsed

\* C8: no operation sets a durable isUsed flag back to false, and no operation
\* removes a record from the durable store.
C8_UsedIsMonotonic ==
  [][\A t \in 1..Len(tokens) :
       /\ t <= Len(tokens')
       /\ tokens[t].isUsed => tokens'[t].isUsed]_vars

C8_Witness ==
  /\ last.op = "consume" /\ Exists(last.token)
  /\ \E t \in 1..Len(tokens) : t # last.token /\ tokens[t].isUsed

\* C9: a successful validateDashboardToken changes neither the durable records
\* nor the cache mirrors, and the same call made again is valid with the same adminId.
C9_ValidateDoesNotConsume ==
  [][(last'.op = "validate" /\ last'.result = "Valid") =>
       /\ tokens' = tokens
       /\ cache' = cache
       /\ (ValidateResult(last.token, last.key).valid)'
       /\ (ValidateResult(last.token, last.key).adminId)' = last'.resAdmin]_vars

C9_Witness ==
  /\ last.op = "validate" /\ last.result = "Valid"
  /\ cache[last.token].present /\ ~tokens[last.token].isUsed

(***************************************************************************)
(* Properties of the order lifecycle                                       *)
(***************************************************************************)
\* the history rows of one order, oldest first
RowsOf(type, orderId) ==
  SelectSeq(history, LAMBDA r : r.orderId = orderId /\ r.orderType = type)

\* C10: an order that was created and then went through N completed status
\* updates has N + 1 history rows; the first has no oldStatus and newStatus
\* CREATED, and the oldStatus of every later row is the newStatus of the row
\* written before it.
C10_HistoryChain ==
  \A type \in OrderTypes, o \in OrderIds :
    OrderExists(type, o) =>
      LET rows == RowsOf(type, o) IN
        /\ Len(rows) = transitions[type][o] + 1
        /\ rows[1].oldStatus = NoStatus
        /\ rows[1].newStatus = "CREATED"
        /\ \A i \in 2..Len(rows) : rows[i].oldStatus = rows[i - 1].newStatus

C10_Witness ==
  \E type \in OrderTypes, o \in OrderIds :
    /\ OrderExists(type, o)
    /\ transitions[type][o] >= 2
    /\ Len(RowsOf(type, o)) = 3
    /\ RowsOf(type, o)[3].oldStatus # "CREATED"

\* the entry Redis holds under cache:order:<orderId>
CachedUnder(orderId) == Get(orderCache, orderId)

\* what getShippingOrder / getPurchaseOrder finds neither in the cache nor in the store
Missing(type, orderId) ==
  ~OrderExists(type, orderId) /\ ~GetCachedOrder(orderCache, orderId, type).found

\* C11: every change of an order's durable status is paired with the history
\* row that records it, also when a store call fails inside create or a status
\* update: every stored order has a history row, and the newStatus of its
\* latest row is its durable status.
C11_StatusChangePaired ==
  \A type \in OrderTypes, o \in OrderIds :
    OrderExists(type, o) =>
      /\ Len(RowsOf(type, o)) >= 1
      /\ RowsOf(type, o)[Len(RowsOf(type, o))].newStatus = orders[type][o].status

\* C12: after a completed create, status update or addTrackingNumber on an
\* order, the entry under that order's cache key is absent or carries the kind,
\* the status and the tracking number of the order's durable record; and in
\* every state the entry a reader of an order's kind finds carries the status
\* and tracking number of the durable record.
C12_CacheAgreesAfterMutation ==
  /\ (last.op \in {"create", "update", "track"} /\ last.outcome = "ok") =>
       (CachedUnder(last.orderId).present =>
          /\ CachedUnder(last.orderId).value.type = last.type
          /\ CachedUnder(last.orderId).value.status
               = orders[last.type][last.orderId].status
          /\ CachedUnder(last.orderId).value.trackNumber
               = orders[last.type][last.orderId].trackNumber)
  /\ \A type \in OrderTypes, o \in OrderIds :
       (OrderExists(type, o) /\ GetCachedOrder(orderCache, o, type).found) =>
          /\ GetCachedOrder(orderCache, o, type).status = orders[type][o].status
          /\ GetCachedOrder(orderCache, o, type).trackNumber = orders[type][o].trackNumber

C12_Witness ==
  /\ last.op = "update" /\ last.outcome = "ok"
  /\ CachedUnder(last.orderId).present
  /\ CachedUnder(last.orderId).value.trackNumber # None
  /\ CachedUnder(last.orderId).value.status # "CREATED"

\* C13: right after a get of an order, the same get returns the same order
\* again, and when the first get filled the cache the second one finds the
\* order in the cache and reads no durable store.
C13_GetTwiceSame ==
  last.op = "get" =>
    /\ GetOrderResult(last.type, last.orderId) = last.result
    /\ (last.storeRead /\ last.outcome = "ok") =>
         GetCachedOrder(orderCache, last.orderId, last.type).found

\* C14: a status update for an order id that is neither cached nor stored
\* throws the order-not-found error and writes no order row, no history row
\* and no cache entry.
C14_TransitionOfMissingOrder ==
  [][(last'.op = "update" /\ Missing(last'.type, last'.orderId)) =>
       /\ last'.outcome = "NotFound"
       /\ orders' = orders
       /\ history' = history
       /\ orderCache' = orderCache
       /\ transitions' = transitions]_vars

C14_Witness ==
  /\ last.op = "update" /\ last.outcome = "NotFound"
  /\ Missing(last.type, last.orderId)
  /\ CachedUnder(last.orderId).present

\* C15: a get for an order id that is neither cached nor stored returns null,
\* throws nothing and writes no cache entry.
C15_GetOfMissingOrder ==
  [][(last'.op = "get" /\ Missing(last'.type, last'.orderId)) =>
       /\ last'.outcome = "null"
       /\ ~last'.result.found
       /\ orderCache' = orderCache
       /\ orders' = orders
       /\ history' = history]_vars

C15_Witness ==
  /\ last.op = "get" /\ last.outcome = "null"
  /\ ~OrderExists(last.type, last.orderId)
  /\ ~CachedUnder(last.orderId).present

\* C16 as stated: once the durable status of an order is DELIVERED, CANCELLED
\* or (purchase) REFUNDED, no step changes it.
C16_FinalStatusesAbsorbing ==
  [][\A type \in OrderTypes, o \in OrderIds :
       (OrderExists(type, o) /\ orders[type][o].status \in FinalStatuses(type))
         => orders'[type][o].status = orders[type][o].status]_vars

\* C16 amended: once the durable status of an order is DELIVERED, CANCELLED or
\* (purchase) REFUNDED, the only step that changes it is a completed status
\* update called on that order, which sets it to the status it returns.
C16_FinalLeftOnlyByTransition ==
  [][\A type \in OrderTypes, o \in OrderIds :
       (/\ OrderExists(type, o)
        /\ orders[type][o].status \in FinalStatuses(type)
        /\ orders'[type][o].status # orders[type][o].status)
         => /\ last'.op = "update" /\ last'.outcome = "ok"
            /\ last'.type = type /\ last'.orderId = o
            /\ orders'[type][o].status = last'.result.status]_vars

C16_Witness ==
  /\ last.op = "update" /\ last.outcome = "ok"
  /\ \E i \in 1..Len(history) :
       /\ history[i].orderType = last.type /\ history[i].orderId = last.orderId
       /\ history[i].oldStatus \in FinalStatuses(last.type)
       /\ history[i].newStatus \notin FinalStatuses(last.type)

\* C17: whatever the status of a stored order, the status update to any target
\* status of its kind can be made, completes and leaves the target as the
\* durable status (as long as the history has room for its row): this is
\* checked after every call on the order. And every status update called on a
\* stored order completes, with the status it wrote into the history row as
\* the durable status.
C17_AnyStatusFollowsAny ==
  /\ (/\ last.op \in {"create", "get", "update", "track"}
      /\ OrderExists(last.type, last.orderId)
      /\ Len(history) < MaxHistory) =>
        \A s \in StatusesOf(last.type) :
          ENABLED (/\ UpdateOrderStatus(last.type, last.orderId, s)
                   /\ last'.outcome = "ok"
                   /\ orders'[last.type][last.orderId].status = s)
  /\ (last.op = "update" /\ OrderExists(last.type, last.orderId)) =>
        /\ last.outcome = "ok"
        /\ orders[last.type][last.orderId].status = last.result.status
        /\ history[Len(history)].newStatus = last.result.status

C17_Witness ==
  /\ last.op = "update" /\ last.outcome = "ok"
  /\ orders[last.type][last.orderId].status = "CREATED"
  /\ \E i \in 1..Len(history) :
       /\ history[i].orderType = last.type /\ history[i].orderId = last.orderId
       /\ history[i].oldStatus = "DELIVERED" /\ history[i].newStatus = "CREATED"

\* C18: every completed status update writes the notification of that
\* transition and queues its push message.
C18_TransitionNotifies ==
  [][(last'.op = "update" /\ last'.outcome = "ok") =>
       /\ Len(notifications') = Len(notifications) + 1
       /\ notifications'[Len(notifications')].orderId = last'.orderId
       /\ notifications'[Len(notifications')].orderType = last'.type
       /\ notifications'[Len(notifications')].newStatus = last'.result.status
       /\ Len(pushQueue') = Len(pushQueue) + 1]_vars

(***************************************************************************)
(* Properties of the balance bookkeeping                                   *)
(***************************************************************************)
\* C19: updateTransactionStatus moves the balance only when it takes the
\* transaction from PENDING to COMPLETED, so a second COMPLETED on the same
\* transaction leaves the balance as it is.
C19_BalanceAppliedOnce ==
  [][(last'.op = "updateTransactionStatus" /\ balance' # balance) =>
       /\ TxExists(last'.txId)
       /\ txs[last'.txId].status = "PENDING"
       /\ txs'[last'.txId].status = "COMPLETED"]_vars

\* C20: a call that throws the insufficient-balance error has changed neither
\* the balance, nor the transaction rows, nor the status of any transaction.
C20_RejectedWithdrawalPersistsNothing ==
  [][last'.outcome = "InsufficientBalance" =>
       /\ balance' = balance
       /\ txs' = txs]_vars

RECURSIVE SumCompletedWithdrawals(_, _)
\* the sum of the amounts of the first n rows of the transaction log that are
\* COMPLETED WITHDRAWAL rows of user u
SumCompletedWithdrawals(u, n) ==
  IF n = 0 THEN 0
  ELSE SumCompletedWithdrawals(u, n - 1) +
       (IF /\ txs[n].userId = u
           /\ txs[n].type = "WITHDRAWAL"
           /\ txs[n].status = "COMPLETED"
        THEN txs[n].amount ELSE 0)

\* C21: at every point of a sequence of withdrawal operations the stored
\* balance of a user equals the initial balance minus the sum of the amounts
\* of the user's COMPLETED WITHDRAWAL rows in the transaction log, and the
\* stored balance is never negative.
C21_BalanceMatchesLog ==
  \A u \in Users :
    /\ balance[u] = InitialBalance - SumCompletedWithdrawals(u, Len(txs))
    /\ balance[u] >= 0

(***************************************************************************)
(* Properties of the web sessions                                          *)
(***************************************************************************)
\* C22: validateWebSession returns valid only for a stored session whose
\* expiresAt the clock has not passed; the successful validation sets
\* lastActivity to the time of the call and stores the session again with a
\* TTL of SessionTTL from that time; no step changes the expiresAt or the
\* createdAt of a session that stays stored; so every successful validation
\* happens at most SessionTTL after the creation of its session.
C22_SessionHorizonFixed ==
  [][/\ (last'.op = "validateWebSession" /\ last'.valid) =>
          LET i == last'.sessionId IN
          /\ sessions[i].present
          /\ now <= NewDate(sessions[i].value.expiresAt)
          /\ now <= NewDate(sessions[i].value.createdAt) + SessionTTL
          /\ sessions'[i].present
          /\ sessions'[i].value.lastActivity = ToISOString(now)
          /\ sessions'[i].evictAt = now + SessionTTL
     /\ \A i \in SessionIds :
          (sessions[i].present /\ sessions'[i].present) =>
            /\ sessions'[i].value.expiresAt = sessions[i].value.expiresAt
            /\ sessions'[i].value.createdAt = sessions[i].value.createdAt]_vars

\* a session validated successfully on the last tick of its lifetime: its key
\* now outlives its expiresAt
C22_Witness ==
  /\ last.op = "validateWebSession"
  /\ last.valid
  /\ now = NewDate(sessions[last.sessionId].value.expiresAt)
  /\ NewDate(sessions[last.sessionId].value.lastActivity) >
       NewDate(sessions[last.sessionId].value.createdAt)
  /\ sessions[last.sessionId].evictAt > NewDate(sessions[last.sessionId].value.expiresAt)

\* C23: validateWebSession of a stored, unexpired session whose admin is
\* missing or inactive returns valid:false and leaves no session key; a
\* session id whose key is gone never has a key again, whatever happens to the
\* admin row, and a validation of a session id without a key returns
\* valid:false.
C23_InactiveAdminEndsSession ==
  [][/\ (/\ last'.op = "validateWebSession"
         /\ sessions[last'.sessionId].present
         /\ now <= NewDate(sessions[last'.sessionId].value.expiresAt)
         /\ admins[sessions[last'.sessionId].value.adminId] # "active") =>
          /\ ~last'.valid
          /\ ~sessions'[last'.sessionId].present
     /\ \A i \in SessionIds :
          (i <= sessionCount /\ ~sessions[i].present) => ~sessions'[i].present
     /\ (last'.op = "validateWebSession" /\ ~sessions[last'.sessionId].present) =>
          ~last'.valid]_vars

\* a session that was refused for its inactive admin is validated again after
\* the admin has been reactivated
C23_Witness ==
  /\ last.op = "validateWebSession"
  /\ last.path = "NoSession"
  /\ last.sessionId <= sessionCount
  /\ now <= SessionTTL
  /\ \A a \in Admins : admins[a] = "active"
  /\ \A i \in SessionIds : i <= sessionCount => ~sessions[i].present

(***************************************************************************)
(* Properties of the calls that run await by await                         *)
(***************************************************************************)
\* C24: the awaits of one call run in the order stated. A
\* generateDashboardAccess that is about to create its record has left no
\* unused unexpired record of its admin, and one that is about to write the
\* mirror has its record in the store and no mirror yet; a markTokenAsUsed
\* that is about to delete the mirror has marked the record used; a status
\* update that is about to write the history row has written the status and
\* not the row, and one that is about to write the cache has written the row.
\* In every state, a token that has a mirror has a record in the store.
C24_StepsInOrder ==
  /\ \A p \in Procs :
       LET call == procs[p] IN
       /\ (call.op = "issue" /\ StepOf(call, IssueSteps) = "create") =>
            \A t \in 1..Len(tokens) :
              tokens[t].adminId = call.adminId =>
                (tokens[t].isUsed \/ tokens[t].expiresAt <= now)
       /\ (call.op = "issue" /\ StepOf(call, IssueSteps) = "mirror") =>
            /\ Exists(call.token)
            /\ ~Get(cache, call.token).present
       /\ (call.op = "consume" /\ StepOf(call, ConsumeSteps) = "delMirror") =>
            (Exists(call.token) => tokens[call.token].isUsed)
       /\ (call.op = "transition" /\ StepOf(call, TransitionSteps) = "history") =>
            /\ orders[call.type][call.orderId].status = call.newStatus
            /\ Len(RowsOf(call.type, call.orderId)) =
                 transitions[call.type][call.orderId] + 1
       /\ (call.op = "transition" /\ StepOf(call, TransitionSteps) = "cache") =>
            /\ orders[call.type][call.orderId].status = call.newStatus
            /\ call.row = Len(history)
            /\ history[call.row].newStatus = call.newStatus
            /\ history[call.row].orderId = call.orderId
  /\ \A t \in TokenIds : Get(cache, t).present => Exists(t)

\* a second generateDashboardAccess of an admin between the write of its
\* record and the write of its mirror, the first token marked used
C24_Witness ==
  /\ procs[1].op = "issue"
  /\ StepOf(procs[1], IssueSteps) = "mirror"
  /\ procs[1].token = 2
  /\ tokens[1].adminId = procs[1].adminId
  /\ tokens[1].isUsed
  /\ ~Get(cache, 2).present

\* the token of a returned generateDashboardAccess is live: unused and
\* unexpired in the durable store, and accepted when presented with its key
LiveToken(t) ==
  /\ Exists(t)
  /\ ~tokens[t].isUsed
  /\ now <= tokens[t].expiresAt
  /\ ValidateResult(t, KeyOf(t)).valid

\* C25: when two generateDashboardAccess calls for the same admin interleave
\* so that each has revoked before the other created its record, then once
\* both have returned the admin has two tokens that are both unused and
\* unexpired in the durable store and that both validate.
C25_RaceLeavesTwoLive ==
  \A p, q \in Procs :
    (/\ p # q
     /\ procs[p].op = "issue" /\ Returned(procs[p], IssueSteps)
     /\ procs[q].op = "issue" /\ Returned(procs[q], IssueSteps)
     /\ procs[p].adminId = procs[q].adminId
     /\ procs[p].seen < procs[q].token
     /\ procs[q].seen < procs[p].token) =>
       /\ LiveToken(procs[p].token)
       /\ LiveToken(procs[q].token)

\* two calls for admin 1 have interleaved and returned, and both tokens are live
C25_Witness ==
  /\ procs[1].op = "issue" /\ Returned(procs[1], IssueSteps)
  /\ procs[2].op = "issue" /\ Returned(procs[2], IssueSteps)
  /\ procs[1].adminId = 1 /\ procs[2].adminId = 1
  /\ procs[1].token # procs[2].token
  /\ LiveToken(procs[1].token)
  /\ LiveToken(procs[2].token)

\* no call is under way
AllReturned ==
  \A p \in Procs : procs[p].op = "idle" \/ Returned(procs[p], StepsOf(procs[p]))

\* C26: once all the overlapping calls on an order have completed, the status
\* of the cached order equals the durable status, and the history row of each
\* completed status update carries as oldStatus the durable status that the
\* update replaced.
C26_OverlapKeepsCacheAndHistory ==
  AllReturned =>
    /\ \A type \in OrderTypes, o \in OrderIds :
         (OrderExists(type, o) /\ GetCachedOrder(orderCache, o, type).found) =>
           GetCachedOrder(orderCache, o, type).status = orders[type][o].status
    /\ \A p \in Procs :
         (procs[p].op = "transition" /\ procs[p].row # None) =>
           history[procs[p].row].oldStatus = procs[p].replaced

\* what a completed transaction adds to the balance of its owner
Signed(call) == IF call.type = "WITHDRAWAL" THEN 0 - call.amount ELSE call.amount

\* C27: when two balance-affecting completions for the same user overlap (each
\* was called on the balance the other was called on) and both have completed,
\* the stored balance is the starting balance plus the signed sum of both
\* amounts; and two overlapping createWithdrawal calls do not both succeed
\* when the starting balance covers only one of them.
C27_OverlapLosesNoUpdate ==
  \A p, q \in Procs :
    (/\ p # q
     /\ procs[p].op \in {"complete", "withdraw"} /\ procs[p].outcome = "ok"
     /\ procs[q].op \in {"complete", "withdraw"} /\ procs[q].outcome = "ok"
     /\ procs[p].userId = procs[q].userId
     /\ procs[p].txId # procs[q].txId
     /\ procs[p].startBalance = procs[q].startBalance) =>
       /\ balance[procs[p].userId] =
            procs[p].startBalance + Signed(procs[p]) + Signed(procs[q])
       /\ (procs[p].op = "withdraw" /\ procs[q].op = "withdraw") =>
            procs[p].amount + procs[q].amount <= procs[p].startBalance

(***************************************************************************)
(* Properties of the support chats                                         *)
(***************************************************************************)
\* C28: once closeChat has completed, the chat it closed has status CLOSED,
\* and once assignAdmin has completed, the chat it was called on has status
\* IN_PROGRESS, for as long as no other call has been made
C28_CloseAndAssignStatusStays ==
  /\ (last.op = "closeChat" /\ last.outcome = "ok") => chats[last.chatId].status = "CLOSED"
  /\ (last.op = "assignAdmin" /\ last.outcome = "ok")
        => chats[last.chatId].status = "IN_PROGRESS"

\* the chats of a user that are not CLOSED
OpenChatsOf(userId) ==
  {c \in 1..Len(chats) : chats[c].userId = userId /\ chats[c].status # "CLOSED"}

\* C29: after any sequence of createSupportChat and addMessage calls, every
\* user has at most one support chat whose status is not CLOSED
C29_OneOpenChatPerUser ==
  \A u \in ChatUsers : Cardinality(OpenChatsOf(u)) <= 1

(***************************************************************************)
(* Properties of the rateLimit middleware                                  *)
(***************************************************************************)
\* C30: every counter key that exists carries an expiry, and no more than
\* maxRequests requests of one user are let through between two expiries of
\* the user's counter key
C30_CounterKeysExpire ==
  \A u \in Users :
    /\ rateKeys[u].present => rateKeys[u].expires
    /\ admits[u] <= MaxRequests

====
